---- MODULE Spec2Model ----
(***************************************************************************)
(* Hospital stay prediction web application: the estimator                 *)
(* (predict_stay_length), the registration / login / intake / result /     *)
(* history handlers of app.py and the three tables of models.py.           *)
(*                                                                         *)
(* Specifications:                                                         *)
(*   Spec          login, logout, main, detection and output over a store  *)
(*                 holding two registered accounts;                        *)
(*   SpecRegister  register (check, then commit) on two threads, with      *)
(*                 login and logout, from an empty store;                  *)
(*   SpecIntake    output, from every intake detection accepts;            *)
(*   SpecEstimate  predict_stay_length over the whole input domain of its  *)
(*                 three arguments;                                        *)
(*   SpecSample    the precaution selection of output over tables of       *)
(*                 0..MaxPrecautions rows.                                 *)
(***************************************************************************)
EXTENDS Integers, Sequences, FiniteSets, TLC

VARIABLES users, predictions, precautions, session, reg, clock, generator,
          response, est, selected_precautions

vars == <<users, predictions, precautions, session, reg, clock, generator,
          response, est, selected_precautions>>

(***************************************************************************)
(* Bounds of the model.                                                    *)
(***************************************************************************)
MaxPredictions == 2
MaxClock == 1
MaxUsers == 3
MaxPrecautions == 6

Clients == {"c1"}
Threads == {"t1", "t2"}
Emails == {"ann@example.org", "bob@example.org"}
GoodPassword == "secret1"
BadPassword == "wrong00"

(***************************************************************************)
(* Helpers.                                                                *)
(***************************************************************************)
Max(a, b) == IF a >= b THEN a ELSE b
Min(a, b) == IF a <= b THEN a ELSE b
Range(s) == {s[i] : i \in DOMAIN s}

(***************************************************************************)
(* The estimator, app.py 27-39.                                            *)
(***************************************************************************)
Severities == {"low", "medium", "high"}

\* the closed range [low, high] of random.randint
RandIntInclusive(low, high) == low .. high
\* np.random.randint(low, high): an integer of the half-open range [low, high)
RandInt(low, high) == low .. (high - 1)

JitterLow == -1
JitterHigh == 3

\* the estimate without its base of 3 and without the clamp at 1
predict_stay_length_unclamped(patient_data, jitter) ==
    LET b1 == IF patient_data.age > 65 THEN 2 ELSE 0
        b2 == IF patient_data.severity = "high" THEN b1 + 3
              ELSE IF patient_data.severity = "medium" THEN b1 + 1 ELSE b1
        b3 == IF patient_data.comorbidities > 2 THEN b2 + 2 ELSE b2
    IN  b3 + jitter

\* jitter is the value np.random.randint(-1, 3) returned
predict_stay_length(patient_data, jitter) ==
    LET b0 == 3
        b1 == IF patient_data.age > 65 THEN b0 + 2 ELSE b0
        b2 == IF patient_data.severity = "high" THEN b1 + 3
              ELSE IF patient_data.severity = "medium" THEN b1 + 1 ELSE b1
        b3 == IF patient_data.comorbidities > 2 THEN b2 + 2 ELSE b2
    IN  Max(1, b3 + jitter)

(***************************************************************************)
(* The tables of models.py.                                                *)
(***************************************************************************)
None == [id |-> 0, name |-> "", email |-> "", age |-> 0, contact |-> "",
         password_hash |-> <<>>]

\* werkzeug: the stored digest is checked against the password it was made
\* from; it is never the plaintext
generate_password_hash(password) == <<"digest", password>>
check_password_hash(pwhash, password) == pwhash = <<"digest", password>>

\* User.check_password, models.py 19-20
check_password(user, password) == check_password_hash(user.password_hash, password)

\* User(...) followed by set_password, app.py 100-106
NewUser(id, form) ==
    [id |-> id, name |-> form.name, email |-> form.email, age |-> form.age,
     contact |-> form.contact,
     password_hash |-> generate_password_hash(form.password)]

\* User.query.filter_by(email=...).first()
find_by_email(us, email) ==
    IF \E i \in DOMAIN us : us[i].email = email
    THEN us[CHOOSE i \in DOMAIN us :
                /\ us[i].email = email
                /\ \A k \in DOMAIN us : us[k].email = email => i <= k]
    ELSE None

\* User.query.get(int(user_id)), app.py 47-49
load_user(us, user_id) ==
    IF \E i \in DOMAIN us : us[i].id = user_id
    THEN us[CHOOSE i \in DOMAIN us : us[i].id = user_id]
    ELSE None

\* db.session.add(user); db.session.commit() against users.email unique=True:
\* a second row with the same email raises IntegrityError and stores nothing
IntegrityError(us, user) == \E i \in DOMAIN us : us[i].email = user.email

\* the insert as it would be without the unique constraint
db_commit_user_no_unique(us, user) == Append(us, user)
db_commit_user(us, user) ==
    IF IntegrityError(us, user) THEN us ELSE Append(us, user)

\* the ten rows init_db seeds, models.py 48-59
SeedPrecautions ==
    << "Maintain proper hygiene to prevent hospital-acquired infections.",
       "Follow all prescribed medication schedules without missing doses.",
       "Engage in light physical activity as recommended by your healthcare provider.",
       "Ensure adequate hydration and nutrition during your hospital stay.",
       "Communicate openly with your care team about any concerns or symptoms.",
       "Get sufficient rest to support your body's healing process.",
       "Keep your environment clean and sanitized.",
       "Monitor your vital signs regularly as instructed.",
       "Report any new or worsening symptoms immediately.",
       "Follow discharge instructions carefully to prevent readmission." >>

\* a precautions table of n rows (ids are the primary key)
PrecautionTable(n) == [i \in 1..n |-> [id |-> i, text |-> SeedPrecautions[i]]]

\* init_db, models.py 42-62: seeds the table only when it is empty
init_db(table) ==
    IF Len(table) = 0 THEN PrecautionTable(Len(SeedPrecautions)) ELSE table

\* the row with another attribute of current_user as its owner
NewPredictionWrongOwner(id, current_user, patient_data, predicted_days, now) ==
    [id |-> id, user_id |-> current_user.age, age |-> patient_data.age,
     severity |-> patient_data.severity,
     comorbidities |-> patient_data.comorbidities,
     temperature |-> patient_data.temperature,
     blood_pressure |-> patient_data.blood_pressure,
     oxygen_saturation |-> patient_data.oxygen_saturation,
     predicted_days |-> predicted_days, timestamp |-> now]

\* Prediction(...), app.py 166-175; id and timestamp are set by the store at
\* insert (autoincrement primary key, default current_timestamp)
NewPrediction(id, current_user, patient_data, predicted_days, now) ==
    [id |-> id, user_id |-> current_user.id, age |-> patient_data.age,
     severity |-> patient_data.severity,
     comorbidities |-> patient_data.comorbidities,
     temperature |-> patient_data.temperature,
     blood_pressure |-> patient_data.blood_pressure,
     oxygen_saturation |-> patient_data.oxygen_saturation,
     predicted_days |-> predicted_days, timestamp |-> now]

\* a commit that replaces the table's rows by the new one
db_commit_prediction_overwrite(preds, prediction) == <<prediction>>
\* db.session.add(prediction); db.session.commit(), app.py 176-177
db_commit_prediction(preds, prediction) == Append(preds, prediction)

(***************************************************************************)
(* Forms, app.py 51-86.  String fields are drawn from values their         *)
(* validators accept; the integer validators are modelled.                 *)
(***************************************************************************)
\* wtforms DataRequired on an IntegerField: the data must be truthy
DataRequired(n) == n /= 0
NumberRange(n, lo, hi) == lo <= n /\ n <= hi

MinAge == 1
MaxAge == 120
MinComorbidities == 0
MaxComorbidities == 10

\* RegistrationForm.validate_on_submit
RegistrationFormValid(form) ==
    DataRequired(form.age) /\ NumberRange(form.age, MinAge, MaxAge)

\* DetectionForm.validate_on_submit
DetectionFormValid(form) ==
    /\ DataRequired(form.age) /\ NumberRange(form.age, MinAge, MaxAge)
    /\ form.severity \in Severities
    /\ DataRequired(form.comorbidities)
    /\ NumberRange(form.comorbidities, MinComorbidities, MaxComorbidities)

RegistrationSubmissions ==
    { [name |-> "Pat", email |-> e, age |-> a, contact |-> "+14155550100",
       password |-> GoodPassword] : e \in Emails, a \in {0, 40} }

Intake(age, severity, comorbidities) ==
    [age |-> age, severity |-> severity, comorbidities |-> comorbidities,
     temperature |-> "98.6", blood_pressure |-> "120/80",
     oxygen_saturation |-> "95"]

\* what the browser posts to /detection: a valid intake, one with no
\* comorbidities (rejected by DataRequired) and one with an age out of range
DetectionSubmissions ==
    { Intake(30, "low", 1), Intake(30, "low", 0), Intake(121, "medium", 1) }

(***************************************************************************)
(* The browser session (flask session + flask_login).                      *)
(***************************************************************************)
\* the value of detection_data when the key is not in the session
NoData == [age |-> 0, severity |-> "", comorbidities |-> 0, temperature |-> "",
           blood_pressure |-> "", oxygen_saturation |-> ""]

NewSession == [user_id |-> 0, detection_data |-> NoData]

\* output without its guard
IntakeNeverMissing(s) == FALSE
\* 'detection_data' not in session, app.py 159
IntakeMissing(s) == s.detection_data = NoData

\* @login_required: flask_login loads current_user through load_user
is_authenticated(us, s) == s.user_id /= 0 /\ load_user(us, s.user_id) /= None

(***************************************************************************)
(* The advisory generator, app.py 41-45 and 183-201.  A text is a sequence *)
(* of tokens: the prompt, blanks and words.                                *)
(***************************************************************************)
Prompt == "Medical advice for reducing hospital stay: "
Blank == " "

RECURSIVE Replace(_, _)
\* str.replace(prompt, ""): every occurrence of the prompt is removed
Replace(text, old) ==
    IF text = <<>> THEN <<>>
    ELSE IF Head(text) = old THEN Replace(Tail(text), old)
    ELSE <<Head(text)>> \o Replace(Tail(text), old)

RECURSIVE LStrip(_)
LStrip(text) ==
    IF text /= <<>> /\ Head(text) = Blank THEN LStrip(Tail(text)) ELSE text

RECURSIVE RStrip(_)
RStrip(text) ==
    IF text /= <<>> /\ text[Len(text)] = Blank
    THEN RStrip(SubSeq(text, 1, Len(text) - 1)) ELSE text

\* str.strip()
Strip(text) == RStrip(LStrip(text))

NumSuggestions == 5

FallbackSuggestions ==
    << <<"Stay hydrated and follow your treatment plan.">>,
       <<"Communicate openly with your healthcare team.">>,
       <<"Get adequate rest to support your recovery.">>,
       <<"Follow all medication instructions precisely.">>,
       <<"Report any new symptoms to your nurse immediately.">> >>

\* what gpt2 may return for num_return_sequences=5: each text repeats the prompt
GeneratedTextA == <<Prompt, "Rest", Blank, "well.", Blank>>
GeneratedTextB == <<Prompt, Blank, "Drink", Blank, "water.">>
GeneratedBatches ==
    { [i \in 1..NumSuggestions |-> GeneratedTextA],
      [i \in 1..NumSuggestions |->
          IF i = 1 THEN GeneratedTextB ELSE GeneratedTextA] }

\* the outcomes of one call generator(prompt, ...): a batch, or an exception
GeneratorOutcomes ==
    { [raised |-> TRUE, generated |-> <<>>] }
    \cup { [raised |-> FALSE, generated |-> b] : b \in GeneratedBatches }

\* app.py 184-201; outcome is what the one call of the generator did (it is
\* not read when the generator is absent)
\* the except branch leaving suggestions = []
SuggestionsExceptEmpty(gen, outcome) ==
    IF gen /= "None"
    THEN IF outcome.raised
         THEN <<>>
         ELSE [i \in DOMAIN outcome.generated |->
                  Strip(Replace(outcome.generated[i], Prompt))]
    ELSE FallbackSuggestions

Suggestions(gen, outcome) ==
    IF gen /= "None"
    THEN IF outcome.raised
         THEN FallbackSuggestions
         ELSE [i \in DOMAIN outcome.generated |->
                  Strip(Replace(outcome.generated[i], Prompt))]
    ELSE FallbackSuggestions

\* how often output calls the generator, and whether that call raised
GeneratorCalls(gen) == IF gen /= "None" THEN 1 ELSE 0
GeneratorRaised(gen, outcome) == gen /= "None" /\ outcome.raised

(***************************************************************************)
(* The history query of main, app.py 137.                                  *)
(***************************************************************************)
HistoryLimit == 5

\* filter_by(user_id=...).order_by(timestamp.desc()).limit(5).all(): every
\* order of the account's rows with non-increasing timestamps is a result
\* the store may produce (rows of equal timestamp are in no defined order)
RecentPredictions(preds, user_id) ==
    LET rows == {i \in DOMAIN preds : preds[i].user_id = user_id}
        n == Cardinality(rows)
        orders == {f \in [1..n -> rows] :
                      /\ \A a, b \in 1..n : a /= b => f[a] /= f[b]
                      /\ \A a, b \in 1..n :
                            a < b => preds[f[a]].timestamp >= preds[f[b]].timestamp}
    IN  {[k \in 1..Min(HistoryLimit, n) |-> preds[f[k]]] : f \in orders}

(***************************************************************************)
(* The precaution selection of output, app.py 180-181.                     *)
(***************************************************************************)
SampleLimit == 5

\* random.sample(precautions, 5)
SampleSizeFixed(n) == SampleLimit
\* min(5, len(precautions))
SampleSize(n) == Min(SampleLimit, n)

\* random.sample(population, k): ValueError when k exceeds the population,
\* otherwise k elements of distinct positions, in any order
SampleRaises(population, k) == k > Len(population) \/ k < 0

RandomSample(population, k) ==
    LET n == Len(population)
    IN  {[i \in 1..k |-> population[f[i]]] :
            f \in {g \in [1..k -> 1..n] :
                      \A a, b \in 1..k : a /= b => g[a] /= g[b]}}

(***************************************************************************)
(* State.                                                                  *)
(*   users, predictions, precautions   the three tables                    *)
(*   session[c]            the session of browser c                        *)
(*   reg[t]                the registration request thread t is handling   *)
(*   clock                 the store's current_timestamp (seconds)         *)
(*   generator             the module-level pipeline, or "None"            *)
(*   response              what the last completed request returned        *)
(*   est                   one call of predict_stay_length (SpecEstimate)  *)
(*   selected_precautions  one precaution selection (SpecSample)           *)
(***************************************************************************)
Page(kind, client) ==
    [kind |-> kind, client |-> client, user_id |-> 0, predicted_days |-> 0,
     suggestions |-> <<>>, patient_data |-> NoData, predictions |-> <<>>,
     generator_calls |-> 0, generator_raised |-> FALSE]

NoForm == [name |-> "", email |-> "", age |-> 0, contact |-> "", password |-> ""]
RegIdle == [pc |-> "idle", form |-> NoForm]

EstIdle == [patient_data |-> NoData, jitter |-> 0, predicted_days |-> 0,
            done |-> FALSE]
NoSelection == [done |-> FALSE, raised |-> FALSE, rows |-> <<>>]

\* a store in which the two registrations of SpecRegister have completed (the
\* database file outlives the process)
RegisteredUsers ==
    << NewUser(1, [name |-> "Pat", email |-> "ann@example.org", age |-> 40,
                   contact |-> "+14155550100", password |-> GoodPassword]),
       NewUser(2, [name |-> "Pat", email |-> "bob@example.org", age |-> 40,
                   contact |-> "+14155550100", password |-> GoodPassword]) >>

\* app.py 18-45: the tables are created and seeded, the pipeline is built or
\* its construction fails
InitApp ==
    /\ predictions = <<>>
    /\ precautions = init_db(<<>>)
    /\ session = [c \in Clients |-> NewSession]
    /\ reg = [t \in Threads |-> RegIdle]
    /\ clock = 0
    /\ generator \in {"None", "pipeline"}
    /\ response = Page("none", "")
    /\ est = EstIdle
    /\ selected_precautions = NoSelection

Init == InitApp /\ users = RegisteredUsers

InitRegister == InitApp /\ users = <<>>

(***************************************************************************)
(* register, app.py 92-112.  The existence check and the commit are two    *)
(* statements on the store; requests of other threads run between them.    *)
(***************************************************************************)
RegisterCheck(t, form) ==
    /\ reg[t].pc = "idle"
    /\ IF ~RegistrationFormValid(form)
       THEN /\ response' = Page("register_form", t)
            /\ UNCHANGED reg
       ELSE IF find_by_email(users, form.email) /= None
       THEN /\ response' = Page("already_registered", t)
            /\ UNCHANGED reg
       ELSE /\ reg' = [reg EXCEPT ![t] = [pc |-> "checked", form |-> form]]
            /\ UNCHANGED response
    /\ UNCHANGED <<users, predictions, precautions, session, clock, generator,
                   est, selected_precautions>>

RegisterCommit(t) ==
    /\ reg[t].pc = "checked"
    /\ Len(users) < MaxUsers
    /\ LET user == NewUser(Len(users) + 1, reg[t].form)
       IN  /\ users' = db_commit_user(users, user)
           /\ response' = IF IntegrityError(users, user)
                          THEN Page("error", t) ELSE Page("registered", t)
    /\ reg' = [reg EXCEPT ![t] = RegIdle]
    /\ UNCHANGED <<predictions, precautions, session, clock, generator, est,
                   selected_precautions>>

(***************************************************************************)
(* login and logout, app.py 114-132.                                       *)
(***************************************************************************)
Login(c, email, password) ==
    /\ LET user == find_by_email(users, email)
       IN  IF user /= None /\ check_password(user, password)
           THEN /\ session' = [session EXCEPT ![c].user_id = user.id]
                /\ response' = Page("login_ok", c)
           ELSE /\ response' = Page("login_failed", c)
                /\ UNCHANGED session
    /\ UNCHANGED <<users, predictions, precautions, reg, clock, generator, est,
                   selected_precautions>>

\* logout_user() removes the user id from the session and nothing else
Logout(c) ==
    /\ IF is_authenticated(users, session[c])
       THEN /\ session' = [session EXCEPT ![c].user_id = 0]
            /\ response' = Page("logout", c)
       ELSE /\ response' = Page("login_required", c)
            /\ UNCHANGED session
    /\ UNCHANGED <<users, predictions, precautions, reg, clock, generator, est,
                   selected_precautions>>

(***************************************************************************)
(* main, app.py 134-138.                                                   *)
(***************************************************************************)
Main(c) ==
    /\ IF is_authenticated(users, session[c])
       THEN \E rows \in RecentPredictions(predictions, session[c].user_id) :
               response' = [Page("main", c) EXCEPT
                               !.user_id = load_user(users, session[c].user_id).id,
                               !.predictions = rows]
       ELSE response' = Page("login_required", c)
    /\ UNCHANGED <<users, predictions, precautions, session, reg, clock,
                   generator, est, selected_precautions>>

(***************************************************************************)
(* detection, app.py 140-154.                                              *)
(***************************************************************************)
Detection(c, form) ==
    /\ IF ~is_authenticated(users, session[c])
       THEN /\ response' = Page("login_required", c)
            /\ UNCHANGED session
       ELSE IF DetectionFormValid(form)
       THEN /\ session' = [session EXCEPT ![c].detection_data = form]
            /\ response' = Page("detection", c)
       ELSE /\ response' = Page("detection_form", c)
            /\ UNCHANGED session
    /\ UNCHANGED <<users, predictions, precautions, reg, clock, generator, est,
                   selected_precautions>>

(***************************************************************************)
(* output, app.py 156-207.  The precaution selection (180-181) reads the   *)
(* precautions table only and cannot raise, since its size is              *)
(* min(5, len(precautions)); its result goes to the template and is        *)
(* modelled by SelectPrecautions below.                                    *)
(***************************************************************************)
Output(c) ==
    /\ IF ~is_authenticated(users, session[c])
       THEN /\ response' = Page("login_required", c)
            /\ UNCHANGED predictions
       ELSE IF IntakeMissing(session[c])
       THEN /\ response' = Page("redirect_detection", c)
            /\ UNCHANGED predictions
       ELSE /\ Len(predictions) < MaxPredictions
            /\ \E jitter \in RandInt(JitterLow, JitterHigh),
                  outcome \in GeneratorOutcomes :
                  LET current_user == load_user(users, session[c].user_id)
                      patient_data == session[c].detection_data
                      predicted_days == predict_stay_length(patient_data, jitter)
                      prediction == NewPrediction(Len(predictions) + 1,
                                                  current_user, patient_data,
                                                  predicted_days, clock)
                  IN  /\ predictions' = db_commit_prediction(predictions, prediction)
                      /\ response' = [Page("output", c) EXCEPT
                                         !.user_id = current_user.id,
                                         !.predicted_days = predicted_days,
                                         !.suggestions = Suggestions(generator, outcome),
                                         !.patient_data = patient_data,
                                         !.generator_calls = GeneratorCalls(generator),
                                         !.generator_raised =
                                             GeneratorRaised(generator, outcome)]
    /\ UNCHANGED <<users, precautions, session, reg, clock, generator, est,
                   selected_precautions>>

\* a second of the store's clock passes
Tick ==
    /\ clock < MaxClock
    /\ clock' = clock + 1
    /\ UNCHANGED <<users, predictions, precautions, session, reg, generator,
                   response, est, selected_precautions>>

RegisterCheckStep == \E t \in Threads, form \in RegistrationSubmissions : RegisterCheck(t, form)
RegisterCommitStep == \E t \in Threads : RegisterCommit(t)
LoginStep == \E c \in Clients, e \in Emails, p \in {GoodPassword, BadPassword} : Login(c, e, p)
LogoutStep == \E c \in Clients : Logout(c)
MainStep == \E c \in Clients : Main(c)
DetectionStep == \E c \in Clients, form \in DetectionSubmissions : Detection(c, form)
OutputStep == \E c \in Clients : Output(c)

Next ==
    \/ LoginStep
    \/ LogoutStep
    \/ MainStep
    \/ DetectionStep
    \/ OutputStep
    \/ Tick

Spec == Init /\ [][Next]_vars

NextRegister ==
    \/ RegisterCheckStep
    \/ RegisterCommitStep
    \/ LoginStep
    \/ LogoutStep

SpecRegister == InitRegister /\ [][NextRegister]_vars

(***************************************************************************)
(* predict_stay_length on its own: every input the intake validators let   *)
(* through NumberRange, and every value the jitter draw can take.          *)
(***************************************************************************)
InitIdle ==
    /\ users = <<>>
    /\ predictions = <<>>
    /\ session = [c \in Clients |-> NewSession]
    /\ reg = [t \in Threads |-> RegIdle]
    /\ clock = 0
    /\ generator = "None"
    /\ response = Page("none", "")

InitEstimate ==
    /\ InitIdle
    /\ precautions = init_db(<<>>)
    /\ selected_precautions = NoSelection
    /\ est \in {[EstIdle EXCEPT !.patient_data = Intake(a, s, k)] :
                   a \in MinAge..MaxAge, s \in Severities,
                   k \in MinComorbidities..MaxComorbidities}

Estimate ==
    /\ ~est.done
    /\ \E jitter \in RandInt(JitterLow, JitterHigh) :
          est' = [est EXCEPT
                     !.jitter = jitter,
                     !.predicted_days = predict_stay_length(est.patient_data, jitter),
                     !.done = TRUE]
    /\ UNCHANGED <<users, predictions, precautions, session, reg, clock,
                   generator, response, selected_precautions>>

NextEstimate == Estimate

SpecEstimate == InitEstimate /\ [][NextEstimate]_vars

(***************************************************************************)
(* The precaution selection on its own, over tables of 0..MaxPrecautions   *)
(* rows (the table init_db leaves always holds rows; the selection is also *)
(* defined on an empty list).                                              *)
(***************************************************************************)
InitSample ==
    /\ InitIdle
    /\ est = EstIdle
    /\ selected_precautions = NoSelection
    /\ precautions \in {PrecautionTable(n) : n \in 0..MaxPrecautions}

\* app.py 180-181
SelectPrecautions ==
    /\ ~selected_precautions.done
    /\ LET k == SampleSize(Len(precautions))
       IN  IF SampleRaises(precautions, k)
           THEN selected_precautions' =
                    [done |-> TRUE, raised |-> TRUE, rows |-> <<>>]
           ELSE \E rows \in RandomSample(precautions, k) :
                    selected_precautions' =
                        [done |-> TRUE, raised |-> FALSE, rows |-> rows]
    /\ UNCHANGED <<users, predictions, precautions, session, reg, clock,
                   generator, response, est>>

NextSample == SelectPrecautions

SpecSample == InitSample /\ [][NextSample]_vars

(***************************************************************************)
(* output on its own, for every intake detection can have put into the     *)
(* session: the states Login and Detection lead to, from which output is   *)
(* requested up to MaxPredictions times.                                   *)
(***************************************************************************)
ValidIntakes ==
    {d \in {Intake(a, s, k) : a \in MinAge..MaxAge, s \in Severities,
                              k \in MinComorbidities..MaxComorbidities} :
        DetectionFormValid(d)}

\* account 1 is logged in and has submitted intake d
InitIntake ==
    /\ users = RegisteredUsers
    /\ predictions = <<>>
    /\ precautions = init_db(<<>>)
    /\ session \in {[c \in Clients |-> [user_id |-> 1, detection_data |-> d]] :
                       d \in ValidIntakes}
    /\ reg = [t \in Threads |-> RegIdle]
    /\ clock = 0
    /\ generator = "None"
    /\ response = Page("detection", "c1")
    /\ est = EstIdle
    /\ selected_precautions = NoSelection

NextIntake == OutputStep

SpecIntake == InitIntake /\ [][NextIntake]_vars

(***************************************************************************)
(* Properties.                                                             *)
(***************************************************************************)
\* the step is an execution of output for browser c that rendered the result
OutputExecuted(c) ==
    /\ response'.kind = "output"
    /\ response'.client = c
    /\ (response' /= response \/ predictions' /= predictions)

Emails_of(us) == {us[i].email : i \in DOMAIN us}

\* C1: for every age in 1..120, severity and comorbidity count in 0..10 and
\* every jitter j, predict_stay_length returns max(1, base + j) with
\* base = 3 + (2 if age > 65) + (3 high, 1 medium, 0 low) + (2 if
\* comorbidities > 2); the jitter values that can be drawn are exactly
\* {-1, 0, 1, 2}; 70/high/3 with jitter 0 gives 10 and 30/low/0 with jitter
\* -1 gives 2.
C1_EstimateIsClampedBasePlusJitter ==
    /\ RandInt(JitterLow, JitterHigh) = {-1, 0, 1, 2}
    /\ est.done =>
          LET p == est.patient_data
              base == 3 + (IF p.age > 65 THEN 2 ELSE 0)
                        + (CASE p.severity = "high" -> 3
                             [] p.severity = "medium" -> 1
                             [] p.severity = "low" -> 0)
                        + (IF p.comorbidities > 2 THEN 2 ELSE 0)
          IN  /\ est.jitter \in {-1, 0, 1, 2}
              /\ est.predicted_days = (IF base + est.jitter >= 1
                                       THEN base + est.jitter ELSE 1)
              /\ (p.age = 70 /\ p.severity = "high" /\ p.comorbidities = 3
                  /\ est.jitter = 0) => est.predicted_days = 10
              /\ (p.age = 30 /\ p.severity = "low" /\ p.comorbidities = 0
                  /\ est.jitter = -1) => est.predicted_days = 2

C1_Witness ==
    /\ est.done
    /\ est.patient_data.age = 70 /\ est.patient_data.severity = "high"
    /\ est.patient_data.comorbidities = 3 /\ est.jitter = 0
    /\ est.predicted_days = 10

\* C2: for every valid intake and every jitter draw, every stored Prediction
\* Record, and every value output returns to the user, is an integer
\* predicted day-count >= 1.
C2_PredictedDaysAtLeastOne ==
    /\ \A i \in DOMAIN predictions :
          predictions[i].predicted_days \in Int /\ predictions[i].predicted_days >= 1
    /\ response.kind = "output" =>
          response.predicted_days \in Int /\ response.predicted_days >= 1

\* the lowest estimate a validated intake allows (base 3, jitter -1) is stored
C2_Witness ==
    \E i \in DOMAIN predictions :
        /\ predictions[i].predicted_days = 2
        /\ predictions[i].age = 1
        /\ predictions[i].severity = "low"
        /\ predictions[i].comorbidities = 2

\* C3: each execution of output with intake present adds exactly one
\* Prediction Record whose six intake fields equal the session intake, whose
\* predicted_days is the value returned to the user and whose owner is the
\* requesting account; no step modifies or deletes a stored record, and
\* nothing but such an execution adds one.
C3_OneRecordPerOutputAppendOnly ==
    [][ /\ \A i \in DOMAIN predictions :
              i \in DOMAIN predictions' /\ predictions'[i] = predictions[i]
        /\ predictions' /= predictions => \E c \in Clients : OutputExecuted(c)
        /\ \A c \in Clients :
              OutputExecuted(c) =>
                 /\ Len(predictions') = Len(predictions) + 1
                 /\ LET r == predictions'[Len(predictions')]
                        d == session[c].detection_data
                    IN  /\ r.age = d.age
                        /\ r.severity = d.severity
                        /\ r.comorbidities = d.comorbidities
                        /\ r.temperature = d.temperature
                        /\ r.blood_pressure = d.blood_pressure
                        /\ r.oxygen_saturation = d.oxygen_saturation
                        /\ d /= NoData
                        /\ r.predicted_days = response'.predicted_days
                        /\ r.user_id = session[c].user_id
                        /\ r.user_id /= 0
      ]_vars

\* a second record has been appended for another account than the first
C3_Witness ==
    /\ Len(predictions) = 2
    /\ response.kind = "output"
    /\ predictions[1].user_id /= predictions[2].user_id
    /\ predictions[2].user_id = response.user_id

\* C4: after output has run twice for an account, main returns both
\* records, the later-created before the earlier-created, also when both
\* carry the same timestamp; main returns no record of another account.
C4_RecentHistoryMostRecentFirst ==
    response.kind = "main" =>
        LET rows == response.predictions
        IN  /\ \A k \in DOMAIN rows : rows[k].user_id = response.user_id
            /\ \A i, j \in DOMAIN predictions :
                  (/\ i < j
                   /\ predictions[i].user_id = response.user_id
                   /\ predictions[j].user_id = response.user_id)
                  => \E a, b \in DOMAIN rows :
                        /\ a < b
                        /\ rows[a] = predictions[j]
                        /\ rows[b] = predictions[i]

C6_FallbackOnAbsentOrFailingGenerator ==
    response.kind = "output" =>
        /\ response.generator_calls <= 1
        /\ generator = "None" => response.generator_calls = 0
        /\ response.generator_raised => response.generator_calls = 1
        /\ (generator = "None" \/ response.generator_raised) =>
              /\ response.suggestions = FallbackSuggestions
              /\ Len(response.suggestions) = 5
              /\ predictions /= <<>>
              /\ predictions[Len(predictions)].predicted_days = response.predicted_days
              /\ predictions[Len(predictions)].user_id = response.user_id

\* the generator exists and its call raised
C6_Witness ==
    /\ generator = "pipeline"
    /\ response.kind = "output"
    /\ response.generator_raised
    /\ response.suggestions = FallbackSuggestions

\* C7: for a table of n precautions the selection raises nothing and returns
\* exactly min(5, n) rows, all of them rows of the table and pairwise
\* distinct; for n < 5 it returns all n; the table is not changed.
C7_SelectionIsMinFiveDistinct ==
    /\ [](selected_precautions.done =>
             LET rows == selected_precautions.rows
                 n == Len(precautions)
             IN  /\ ~selected_precautions.raised
                 /\ Len(rows) = (IF n < 5 THEN n ELSE 5)
                 /\ \A i \in DOMAIN rows : rows[i] \in Range(precautions)
                 /\ \A i, j \in DOMAIN rows :
                       i /= j => rows[i].id /= rows[j].id /\ rows[i].text /= rows[j].text
                 /\ n < 5 => Range(rows) = Range(precautions))
    /\ [][precautions' = precautions]_vars

\* three precautions stored, all three selected
C7_Witness ==
    /\ Len(precautions) = 3
    /\ selected_precautions.done
    /\ Len(selected_precautions.rows) = 3

\* C8: output requested without intake in the session redirects to the intake
\* step and changes nothing; a record is only created from intake that is in
\* the session, and intake only enters the session by a valid detection
\* submission of that browser.
C8_NoIntakeNoRecord ==
    [][ \A c \in Clients :
          /\ (Output(c) /\ is_authenticated(users, session[c])
              /\ session[c].detection_data = NoData)
             => /\ response'.kind = "redirect_detection"
                /\ response'.predicted_days = 0
                /\ UNCHANGED <<users, predictions, precautions, session>>
          /\ (response'.kind = "redirect_detection" /\ response' /= response)
             => UNCHANGED <<users, predictions, precautions, session>>
          /\ OutputExecuted(c) => session[c].detection_data /= NoData
          /\ session'[c].detection_data /= session[c].detection_data
             => /\ response'.kind = "detection"
                /\ response'.client = c
                /\ DetectionFormValid(session'[c].detection_data)
      ]_vars

\* a logged-in browser without intake was redirected, nothing stored
C8_Witness ==
    /\ response.kind = "redirect_detection"
    /\ session[response.client].detection_data = NoData
    /\ session[response.client].user_id /= 0
    /\ predictions = <<>>

\* C9: an execution of output clears the intake from the session, so an
\* output request that follows without a new detection submission creates
\* no further record.
C9_IntakeClearedByOutput ==
    [][ \A c \in Clients :
          OutputExecuted(c) =>
             /\ session'[c].detection_data = NoData
             /\ ~(response.kind = "output" /\ response.client = c)
      ]_vars

\* C10: no two stored Accounts share an email, whatever the interleaving of
\* registration requests; a registration whose email is already stored
\* creates no account, and no stored account is changed.
C10_EmailUnique ==
    /\ [](\A i, j \in DOMAIN users : i /= j => users[i].email /= users[j].email)
    /\ [][ /\ \A i \in DOMAIN users :
                i \in DOMAIN users' /\ users'[i] = users[i]
           /\ users' /= users =>
                /\ Len(users') = Len(users) + 1
                /\ users'[Len(users')].email \notin Emails_of(users)
         ]_vars

\* two registrations of one email both passed the check; the second commit
\* was rejected
C10_Witness ==
    /\ response.kind = "error"
    /\ Len(users) = 1
    /\ \A t \in Threads : reg[t].pc = "idle"

====
